---- MODULE Spec2Model ----
(***************************************************************************)
(* Blog platform backend: credential store, token issuer/verifier,         *)
(* identity-resolution middleware and ownership-gated post operations.     *)
(* Each HTTP request is a small process: it is started with its inputs,    *)
(* passes the middleware its route mounts, and then runs its controller.   *)
(* Controllers are split at the awaits that touch the store.               *)
(***************************************************************************)
EXTENDS Integers, Sequences, FiniteSets, TLC

\* ------------------------------------------------------------------ bounds
MaxUsers == 2      \* rows the users table may hold
MaxPosts == 2      \* posts ever inserted (AUTOINCREMENT ids 1..MaxPosts)
MaxClock == 3      \* wall clock runs 0..MaxClock
TokenTtl == 2      \* the '7d' default of generateToken, in clock units

\* ------------------------------------------------ program constants
MinPasswordLen == 6
MinTitleLen == 3
MinContentLen == 10
JwtSecret == "JWT_SECRET"
TokenIssuer == "blog-platform"
TokenAudience == "blog-platform-users"

\* ------------------------------------------------------- string helpers
\* Strings that the code inspects character by character are sequences of
\* one-character strings.
IsSpace(c) == c = " "

RECURSIVE TrimStart(_)
TrimStart(s) == IF s # <<>> /\ IsSpace(Head(s)) THEN TrimStart(Tail(s)) ELSE s

RECURSIVE TrimEnd(_)
TrimEnd(s) ==
    IF s # <<>> /\ IsSpace(s[Len(s)]) THEN TrimEnd(SubSeq(s, 1, Len(s) - 1)) ELSE s

\* String.prototype.trim
Trim(s) == TrimEnd(TrimStart(s))

LowerChar(c) ==
    CASE c = "A" -> "a"
      [] c = "B" -> "b"
      [] c = "X" -> "x"
      [] OTHER -> c

\* String.prototype.toLowerCase
ToLowerCase(s) == [i \in 1..Len(s) |-> LowerChar(s[i])]

\* [^\s@]+
NoSpaceAtRun(s) == s # <<>> /\ \A i \in 1..Len(s) : ~IsSpace(s[i]) /\ s[i] # "@"

\* /^[^\s@]+@[^\s@]+\.[^\s@]+$/.test(email)
EmailRegexTest(s) ==
    \E i \in 1..Len(s) : \E j \in 1..Len(s) :
        /\ i < j
        /\ s[i] = "@"
        /\ s[j] = "."
        /\ NoSpaceAtRun(SubSeq(s, 1, i - 1))
        /\ NoSpaceAtRun(SubSeq(s, i + 1, j - 1))
        /\ NoSpaceAtRun(SubSeq(s, j + 1, Len(s)))

\* `!x` for a string-valued body field: absent and "" are both falsy
Falsy(s) == s = <<>>

\* ------------------------------------------------------- request inputs
EmailInputs ==
    { <<"a", "@", "x", ".", "c">>,
      <<"A", "@", "x", ".", "c">>,
      <<" ", "a", "@", "x", ".", "c">>,
      <<"B", "@", "x", ".", "c">>,
      <<"a", "b">>,
      <<>> }

\* passwords offered at registration, and at login
RegisterPasswordInputs == { "secret1", "short", "" }
PasswordInputs == RegisterPasswordInputs \cup { "secret2" }

TitleOk == <<" ", "H", "i", "!", " ">>
TitleOk2 == <<"N", "e", "w", "s">>
ContentOk == <<"t", "e", "n", " ", "c", "h", "a", "r", "s", "!", " ">>
ContentOk2 == <<"s", "e", "c", "o", "n", "d", " ", "b", "o", "d", "y">>

TitleInputs == { <<>>, <<" ", " ", " ">>, <<" ", "H", "i", " ">>, TitleOk }

ContentInputs ==
    { <<>>,
      <<" ", " ">>,
      <<" ", "n", "i", "n", "e", "c", "h", "a", "r", "s">>,
      ContentOk }

\* a client-supplied authorId field in the body; 0 stands for none
BodyAuthorInputs == { 0, 1 }

\* {title, content, authorId} bodies sent to create and update
PostBodies ==
    { [title |-> t, content |-> ContentOk, authorId |-> 0] : t \in TitleInputs }
    \cup { [title |-> TitleOk, content |-> c, authorId |-> 0] : c \in ContentInputs }
    \cup { [title |-> TitleOk, content |-> ContentOk, authorId |-> a] : a \in BodyAuthorInputs }
    \cup { [title |-> TitleOk2, content |-> ContentOk2, authorId |-> a] : a \in BodyAuthorInputs }

UserIds == 1..MaxUsers
Clock == 0..MaxClock

\* ------------------------------------------------------------- tokens
\* A token is what jwt.sign would serialise: its claims and the key that
\* signed it.  form = "garbage" is a string that is not a JWT at all.
Token(form, sub, iat, nbf, exp, iss, aud, sig) ==
    [form |-> form, sub |-> sub, iat |-> iat, nbf |-> nbf, exp |-> exp,
     iss |-> iss, aud |-> aud, sig |-> sig]

NoToken == Token("", 0, 0, 0, 0, "", "", "")
GarbageToken == Token("garbage", 0, 0, 0, 0, "", "", "")

\* values the deployment may give JWT_EXPIRES_IN, in clock units; the
\* setting is read nowhere, so the program is the same under each of them
ExpiresInSettings == 1..(TokenTtl + 1)

\* generateToken(userId, expiresIn) at wall clock t
GenerateToken(userId, expiresIn, t) ==
    Token("jwt", userId, t, 0, t + expiresIn, TokenIssuer, TokenAudience, JwtSecret)

\* a verifier that still accepts a token in the second it expires
JwtVerify_OffByOne(tok, t) ==
    IF tok.form # "jwt" THEN "JsonWebTokenError"
    ELSE IF tok.sig # JwtSecret THEN "JsonWebTokenError"
    ELSE IF tok.nbf > t THEN "NotBeforeError"
    ELSE IF t > tok.exp THEN "TokenExpiredError"
    ELSE "ok"

\* jwt.verify(token, process.env.JWT_SECRET) at wall clock t: no issuer or
\* audience option is passed, so neither claim is compared.
JwtVerify(tok, t) ==
    IF tok.form # "jwt" THEN "JsonWebTokenError"
    ELSE IF tok.sig # JwtSecret THEN "JsonWebTokenError"
    ELSE IF tok.nbf > t THEN "NotBeforeError"
    ELSE IF t >= tok.exp THEN "TokenExpiredError"
    ELSE "ok"

\* tokens a client may present: every token generateToken can have issued,
\* and tokens made elsewhere
IssuedTokens == { GenerateToken(u, TokenTtl, t) : u \in UserIds, t \in Clock }

ForeignIssuerToken == [GenerateToken(1, TokenTtl, 0) EXCEPT !.iss = "other-service"]
ForeignAudienceToken == [GenerateToken(1, TokenTtl, 1) EXCEPT !.aud = "other-users"]
ForgedToken == [GenerateToken(1, TokenTtl, 0) EXCEPT !.sig = "attacker-key"]
NotYetValidToken == [GenerateToken(1, TokenTtl, 0) EXCEPT !.nbf = 1]

TokenInputs ==
    IssuedTokens \cup
    { ForeignIssuerToken, ForeignAudienceToken, ForgedToken, NotYetValidToken,
      GarbageToken }

\* the Authorization header: absent, another scheme, 'Bearer ' with nothing
\* after the space, or 'Bearer <token>'
Header(present, scheme, tok) == [present |-> present, scheme |-> scheme, tok |-> tok]
NoHeader == Header(FALSE, "", NoToken)
BasicHeader == Header(TRUE, "Basic", GarbageToken)
EmptyBearerHeader == Header(TRUE, "Bearer", NoToken)
\* what requests to the public routes carry: their stack never reads it
PublicHeaderInputs == { NoHeader }

\* what requests to the post routes carry: no credential, a forged one, or a
\* token generateToken issued at clock 0
PostHeaderInputs ==
    { NoHeader, Header(TRUE, "Bearer", ForgedToken) } \cup { Header(TRUE, "Bearer", GenerateToken(u, TokenTtl, 0)) : u \in UserIds }
HeaderInputs ==
    { NoHeader, BasicHeader, EmptyBearerHeader }
    \cup { Header(TRUE, "Bearer", t) : t \in TokenInputs }

\* ------------------------------------------------------ password verifier
\* bcrypt draws a new salt in every call; the model names the salt after the
\* row the call is hashing for
FreshSalt(table) == Len(table) + 1

\* bcrypt.hash(password, saltRounds) with the salt the call drew
BcryptHash(password, salt) == [salt |-> salt, digest |-> password]

\* bcrypt.compare(password, hash): re-hash under the stored salt and compare
BcryptCompare(password, hash) == BcryptHash(password, hash.salt) = hash

\* ------------------------------------------------------------ views
NoUser == [id |-> 0, email |-> <<>>, passwordHash |-> BcryptHash("", 0), createdAt |-> 0]
NoUserView == [id |-> 0, email |-> <<>>, createdAt |-> 0]
NoPost ==
    [id |-> 0, title |-> <<>>, content |-> <<>>, authorId |-> 0,
     createdAt |-> 0, authorEmail |-> <<>>]

\* a view that hands out the row as it is stored
ToSafeObject_WholeRow(u) == u

\* User.toSafeObject
ToSafeObject(u) == [id |-> u.id, email |-> u.email, createdAt |-> u.createdAt]

\* Post.toObject
ToObject(post) ==
    [id |-> post.id, title |-> post.title, content |-> post.content,
     authorId |-> post.authorId, createdAt |-> post.createdAt,
     authorEmail |-> post.authorEmail]

\* res.status(status).json({error | message, details, user, token, post, posts, stack})
Response(status, text, details) ==
    [status |-> status, text |-> text, details |-> details,
     user |-> NoUserView, token |-> NoToken, post |-> NoPost, posts |-> <<>>,
     stack |-> ""]
NoResponse == Response(0, "", "")

\* ------------------------------------------------------------- routing
AuthRoutes == { "me", "logout", "refresh", "createPost", "updatePost", "deletePost" }
PublicRoutes == { "register", "login", "getAllPosts", "getPostById" }
OptionalRoutes == { "optional" }
Routes == AuthRoutes \cup PublicRoutes \cup OptionalRoutes
IdRoutes == { "getPostById", "updatePost", "deletePost" }
IdentityRoutes == { "register", "login", "me", "logout", "refresh", "optional" }
PostRoutes == { "createPost", "getAllPosts", "getPostById", "updatePost", "deletePost" }

Procs == { 1, 2 }
SeqProcs == { 1 }

VARIABLES
    users,       \* users table: row i has id i
    posts,       \* posts table: set of rows
    lastPostId,  \* sqlite_sequence of posts (AUTOINCREMENT never reuses an id)
    now,         \* wall clock, seconds
    req,         \* per request slot: the request, its context and its response
    client       \* the browser: the refresh flag, its promises and the callers

vars == <<users, posts, lastPostId, now, req, client>>

\* ------------------------------------------- client: the refresh flag
\* Call sites of refreshTokenIfNeeded in the page. A promise is named
\* after the caller whose call created it.
MaxCallers == 3
Callers == 1..MaxCallers
\* the setInterval callback of setupTokenRefresh
IntervalCaller == 1

\* pc: where the call is; role: whether the call sent the request or
\* joined a pending one; on: the promise it waits for; result: the state
\* of the promise the call returned to its caller.
IdleCaller == [pc |-> "idle", role |-> "none", on |-> 0, result |-> "none"]

\* refreshPromise: the module-level flag (0 is null); promise: the state
\* of apiClient.refreshToken().then(...) per starter; inFlight: POST
\* /auth/refresh requests sent and not yet answered; authToken: the
\* auth_token cookie is present.
IdleClient ==
    [refreshPromise |-> 0,
     promise |-> [c \in Callers |-> "none"],
     caller |-> [c \in Callers |-> IdleCaller],
     inFlight |-> 0,
     authToken |-> TRUE]

IdleReq ==
    [pc |-> "idle", route |-> "", hdr |-> NoHeader,
     email |-> <<>>, password |-> "", title |-> <<>>, content |-> <<>>,
     bodyAuthorId |-> 0, postId |-> 0, author |-> -1,
     decoded |-> 0, user |-> NoUserView, userId |-> 0,
     post |-> NoPost, nextCalls |-> 0, resp |-> NoResponse]

Init ==
    /\ users = <<>>
    /\ posts = {}
    /\ lastPostId = 0
    /\ now = 0
    /\ req = [p \in Procs |-> IdleReq]
    /\ client = IdleClient

\* ------------------------------------------------------ store queries
\* SELECT * FROM users WHERE id = ?
UserFindById(id) == IF id \in 1..Len(users) THEN users[id] ELSE NoUser

\* SELECT * FROM users WHERE email = ?
UserFindByEmail(email) ==
    IF \E i \in 1..Len(users) : users[i].email = email
    THEN users[CHOOSE i \in 1..Len(users) : users[i].email = email]
    ELSE NoUser

\* posts LEFT JOIN users ON posts.authorId = users.id
JoinAuthor(row) ==
    [id |-> row.id, title |-> row.title, content |-> row.content,
     authorId |-> row.authorId, createdAt |-> row.createdAt,
     authorEmail |-> UserFindById(row.authorId).email]

\* Post.findById
PostFindById(id) ==
    IF \E r \in posts : r.id = id
    THEN JoinAuthor(CHOOSE r \in posts : r.id = id)
    ELSE NoPost

\* ----------------------------------------------------------- requests
Send(p, r) == req' = [req EXCEPT ![p] = r]

Respond(r, response) == [r EXCEPT !.pc = "done", !.resp = response]

\* router.param('id'): parseInt(id, 10) must be a positive number
InvalidPostId(id) == id <= 0

\* a request arrives: router.param validates :id, then the router picks the
\* first stage its route mounts
Dispatch(route, hdr, postId) ==
    LET r == [IdleReq EXCEPT !.route = route, !.hdr = hdr, !.postId = postId]
    IN IF route \in IdRoutes /\ InvalidPostId(postId)
       THEN Respond(r, Response(400, "Invalid post ID", "Post ID must be a positive number"))
       ELSE [r EXCEPT !.pc = IF route \in AuthRoutes THEN "authenticateToken"
                              ELSE IF route \in OptionalRoutes THEN "optionalAuth"
                              ELSE route]

StartOn(p, routes, headers) ==
    /\ req[p].pc \in { "idle", "done" }
    /\ \E route \in routes, hdr \in headers, postId \in 0..MaxPosts :
         /\ route \in PublicRoutes => hdr \in PublicHeaderInputs
         /\ route \notin IdRoutes => postId = 0
         /\ Send(p, Dispatch(route, hdr, postId))
    /\ UNCHANGED <<users, posts, lastPostId, now, client>>

\* the wall clock advances
Tick ==
    /\ now < MaxClock
    /\ now' = now + 1
    /\ UNCHANGED <<users, posts, lastPostId, req, client>>

\* ------------------------------------------------- identity resolution
\* next(): hand the request to the controller of its route
CallNext(r) ==
    [r EXCEPT !.nextCalls = r.nextCalls + 1,
              !.pc = IF r.route \in OptionalRoutes THEN "done" ELSE r.route]

\* !authHeader || !authHeader.startsWith('Bearer ')
NoBearer(hdr) == ~hdr.present \/ hdr.scheme # "Bearer"

\* a middleware that answers an expired token like a malformed one
AuthenticateTokenVerify_OneReason(r, t) ==
    IF NoBearer(r.hdr)
    THEN Respond(r, Response(401, "Access denied. No valid token provided.",
                     "Please include a valid JWT token in the Authorization header"))
    ELSE IF r.hdr.tok = NoToken
    THEN Respond(r, Response(401, "Access denied. Token format is invalid.",
                     "Token should be provided as: Bearer <your-token>"))
    ELSE IF JwtVerify(r.hdr.tok, t) \in { "TokenExpiredError", "JsonWebTokenError" }
    THEN Respond(r, Response(401, "Invalid token",
                     "The provided token is malformed or invalid"))
    ELSE IF JwtVerify(r.hdr.tok, t) # "ok"
    THEN Respond(r, Response(401, "Token verification failed", "jwt not active"))
    ELSE [r EXCEPT !.decoded = r.hdr.tok.sub, !.pc = "authenticateToken.findById"]

\* a middleware that decodes the token without verifying it
AuthenticateTokenVerify_DecodeOnly(r, t) ==
    IF NoBearer(r.hdr)
    THEN Respond(r, Response(401, "Access denied. No valid token provided.",
                     "Please include a valid JWT token in the Authorization header"))
    ELSE IF r.hdr.tok = NoToken
    THEN Respond(r, Response(401, "Access denied. Token format is invalid.",
                     "Token should be provided as: Bearer <your-token>"))
    ELSE IF r.hdr.tok.form # "jwt"
    THEN Respond(r, Response(401, "Invalid token",
                     "The provided token is malformed or invalid"))
    ELSE [r EXCEPT !.decoded = r.hdr.tok.sub, !.pc = "authenticateToken.findById"]

\* a middleware that takes a token issued before the current second as
\* superseded by a later one
AuthenticateTokenVerify_Superseded(r, t) ==
    IF NoBearer(r.hdr)
    THEN Respond(r, Response(401, "Access denied. No valid token provided.",
                     "Please include a valid JWT token in the Authorization header"))
    ELSE IF r.hdr.tok = NoToken
    THEN Respond(r, Response(401, "Access denied. Token format is invalid.",
                     "Token should be provided as: Bearer <your-token>"))
    ELSE IF JwtVerify(r.hdr.tok, t) = "TokenExpiredError"
    THEN Respond(r, Response(401, "Token has expired",
                     "Please log in again to get a new token"))
    ELSE IF JwtVerify(r.hdr.tok, t) = "JsonWebTokenError" \/ r.hdr.tok.iat < t
    THEN Respond(r, Response(401, "Invalid token",
                     "The provided token is malformed or invalid"))
    ELSE IF JwtVerify(r.hdr.tok, t) # "ok"
    THEN Respond(r, Response(401, "Token verification failed", "jwt not active"))
    ELSE [r EXCEPT !.decoded = r.hdr.tok.sub, !.pc = "authenticateToken.findById"]

\* authenticateToken up to its await: header checks and jwt.verify
AuthenticateTokenVerify(r, t) ==
    IF NoBearer(r.hdr)
    THEN Respond(r, Response(401, "Access denied. No valid token provided.",
                     "Please include a valid JWT token in the Authorization header"))
    ELSE IF r.hdr.tok = NoToken
    THEN Respond(r, Response(401, "Access denied. Token format is invalid.",
                     "Token should be provided as: Bearer <your-token>"))
    ELSE IF JwtVerify(r.hdr.tok, t) = "TokenExpiredError"
    THEN Respond(r, Response(401, "Token has expired",
                     "Please log in again to get a new token"))
    ELSE IF JwtVerify(r.hdr.tok, t) = "JsonWebTokenError"
    THEN Respond(r, Response(401, "Invalid token",
                     "The provided token is malformed or invalid"))
    ELSE IF JwtVerify(r.hdr.tok, t) # "ok"
    THEN Respond(r, Response(401, "Token verification failed", "jwt not active"))
    ELSE [r EXCEPT !.decoded = r.hdr.tok.sub, !.pc = "authenticateToken.findById"]

\* a middleware whose 'user no longer exists' branch lacks its return: it
\* answers 401 and goes on to next()
AuthenticateTokenResolve_FallThrough(r, user, dbFails) ==
    IF dbFails
    THEN Respond(r, Response(500, "Internal server error during authentication",
                     "Please try again later"))
    ELSE IF user = NoUser
    THEN [Respond(r, Response(401, "User no longer exists",
                      "The account associated with this token has been removed"))
            EXCEPT !.nextCalls = r.nextCalls + 1]
    ELSE CallNext([r EXCEPT !.user = ToSafeObject(user), !.userId = user.id])

\* authenticateToken after User.findById(decoded.userId) settled
AuthenticateTokenResolve(r, user, dbFails) ==
    IF dbFails
    THEN Respond(r, Response(500, "Internal server error during authentication",
                     "Please try again later"))
    ELSE IF user = NoUser
    THEN Respond(r, Response(401, "User no longer exists",
                     "The account associated with this token has been removed"))
    ELSE CallNext([r EXCEPT !.user = ToSafeObject(user), !.userId = user.id])

AuthVerify(p) ==
    /\ req[p].pc = "authenticateToken"
    /\ Send(p, AuthenticateTokenVerify(req[p], now))
    /\ UNCHANGED <<users, posts, lastPostId, now, client>>

AuthLookup(p) ==
    /\ req[p].pc = "authenticateToken.findById"
    /\ \E dbFails \in BOOLEAN :
         Send(p, AuthenticateTokenResolve(req[p], UserFindById(req[p].decoded), dbFails))
    /\ UNCHANGED <<users, posts, lastPostId, now, client>>

\* optionalAuth up to its await
OptionalAuthVerify(r, t) ==
    IF NoBearer(r.hdr) \/ r.hdr.tok = NoToken \/ JwtVerify(r.hdr.tok, t) # "ok"
    THEN CallNext([r EXCEPT !.user = NoUserView, !.userId = 0])
    ELSE [r EXCEPT !.decoded = r.hdr.tok.sub, !.pc = "optionalAuth.findById"]

\* an optional mode that lets a store failure reach the caller
OptionalAuthResolve_Throws(r, user, dbFails) ==
    IF dbFails
    THEN Respond(r, Response(500, "Internal server error during authentication",
                     "Please try again later"))
    ELSE IF user = NoUser
    THEN CallNext([r EXCEPT !.user = NoUserView, !.userId = 0])
    ELSE CallNext([r EXCEPT !.user = ToSafeObject(user), !.userId = user.id])

\* optionalAuth after User.findById(decoded.userId) settled
OptionalAuthResolve(r, user, dbFails) ==
    IF dbFails \/ user = NoUser
    THEN CallNext([r EXCEPT !.user = NoUserView, !.userId = 0])
    ELSE CallNext([r EXCEPT !.user = ToSafeObject(user), !.userId = user.id])

OptAuthVerify(p) ==
    /\ req[p].pc = "optionalAuth"
    /\ Send(p, OptionalAuthVerify(req[p], now))
    /\ UNCHANGED <<users, posts, lastPostId, now, client>>

OptAuthLookup(p) ==
    /\ req[p].pc = "optionalAuth.findById"
    /\ \E dbFails \in BOOLEAN :
         Send(p, OptionalAuthResolve(req[p], UserFindById(req[p].decoded), dbFails))
    /\ UNCHANGED <<users, posts, lastPostId, now, client>>

\* ------------------------------------------------------ auth controller
\* email.toLowerCase().trim()
NormalizeEmail(email) == Trim(ToLowerCase(email))

\* a register that accepts a password of any length
RegisterValidate_NoMinLength(r, existingUser) ==
    IF Falsy(r.email) \/ r.password = ""
    THEN Respond(r, Response(400, "Missing required fields",
                     "Both email and password are required"))
    ELSE IF ~EmailRegexTest(r.email)
    THEN Respond(r, Response(400, "Invalid email format",
                     "Please provide a valid email address"))
    ELSE IF existingUser # NoUser
    THEN Respond(r, Response(409, "Email already registered",
                     "An account with this email already exists. Try logging in instead."))
    ELSE [r EXCEPT !.pc = "register.insert"]

\* register up to User.create's findByEmail: input validation, then the
\* duplicate pre-check against the row findByEmail returned
RegisterValidate(r, existingUser) ==
    IF Falsy(r.email) \/ r.password = ""
    THEN Respond(r, Response(400, "Missing required fields",
                     "Both email and password are required"))
    ELSE IF ~EmailRegexTest(r.email)
    THEN Respond(r, Response(400, "Invalid email format",
                     "Please provide a valid email address"))
    ELSE IF Len(r.password) < MinPasswordLen
    THEN Respond(r, Response(400, "Password too weak",
                     "Password must be at least 6 characters long"))
    ELSE IF existingUser # NoUser
    THEN Respond(r, Response(409, "Email already registered",
                     "An account with this email already exists. Try logging in instead."))
    ELSE [r EXCEPT !.pc = "register.insert"]

\* the row INSERT INTO users (email, passwordHash) adds at wall clock t
NewUserRow(id, email, password, salt, t) ==
    [id |-> id, email |-> email, passwordHash |-> BcryptHash(password, salt),
     createdAt |-> t]

\* a users table whose email column carries no UNIQUE constraint
RegisterInsert_NoUnique(r, table, salt, t) ==
    LET row == NewUserRow(Len(table) + 1, NormalizeEmail(r.email), r.password, salt, t)
    IN [req |-> Respond(r, [Response(201, "User registered successfully", "")
                              EXCEPT !.user = ToSafeObject(row),
                                     !.token = GenerateToken(row.id, TokenTtl, t)]),
        users |-> Append(table, row)]

\* register from the INSERT on: the UNIQUE(email) constraint of the table
\* rejects a second row with the same email, which the catch answers 500
RegisterInsert(r, table, salt, t) ==
    IF \E i \in 1..Len(table) : table[i].email = NormalizeEmail(r.email)
    THEN [req |-> Respond(r, Response(500, "Registration failed",
                             "An unexpected error occurred. Please try again later.")),
          users |-> table]
    ELSE LET row == NewUserRow(Len(table) + 1, NormalizeEmail(r.email), r.password, salt, t)
         IN [req |-> Respond(r, [Response(201, "User registered successfully", "")
                                   EXCEPT !.user = ToSafeObject(row),
                                          !.token = GenerateToken(row.id, TokenTtl, t)]),
             users |-> Append(table, row)]

PendingInserts == Cardinality({ q \in Procs : req[q].pc = "register.insert" })

Register(p) ==
    /\ req[p].pc = "register"
    /\ \E email \in EmailInputs, password \in RegisterPasswordInputs :
         LET r == [req[p] EXCEPT !.email = email, !.password = password]
             next == RegisterValidate(r, UserFindByEmail(NormalizeEmail(email)))
         IN /\ next.pc = "register.insert" => Len(users) + PendingInserts < MaxUsers
            /\ Send(p, next)
    /\ UNCHANGED <<users, posts, lastPostId, now, client>>

RegisterCreate(p) ==
    /\ req[p].pc = "register.insert"
    /\ LET out == RegisterInsert(req[p], users, FreshSalt(users), now)
       IN /\ Send(p, out.req)
          /\ users' = out.users
    /\ UNCHANGED <<posts, lastPostId, now, client>>

\* a login that tells an unknown email apart
LoginNoUserResponse_NotFound ==
    Response(404, "User not found", "No account with this email")

\* the two rejections of login, as written at their return statements
LoginNoUserResponse ==
    Response(401, "Invalid credentials", "Email or password is incorrect")
LoginBadPasswordResponse ==
    Response(401, "Invalid credentials", "Email or password is incorrect")

\* a login that does not wait for verifyPassword: the pending promise is truthy
LoginCheck_MissingAwait(r, user, t) ==
    IF Falsy(r.email) \/ r.password = ""
    THEN Respond(r, Response(400, "Missing credentials",
                     "Both email and password are required"))
    ELSE IF user = NoUser
    THEN Respond(r, LoginNoUserResponse)
    ELSE Respond(r, [Response(200, "Login successful", "")
                       EXCEPT !.user = ToSafeObject(user),
                              !.token = GenerateToken(user.id, TokenTtl, t)])

\* login, given the row findByEmail(normalizedEmail) returned
LoginCheck(r, user, t) ==
    IF Falsy(r.email) \/ r.password = ""
    THEN Respond(r, Response(400, "Missing credentials",
                     "Both email and password are required"))
    ELSE IF user = NoUser
    THEN Respond(r, LoginNoUserResponse)
    ELSE IF ~BcryptCompare(r.password, user.passwordHash)
    THEN Respond(r, LoginBadPasswordResponse)
    ELSE Respond(r, [Response(200, "Login successful", "")
                       EXCEPT !.user = ToSafeObject(user),
                              !.token = GenerateToken(user.id, TokenTtl, t)])

Login(p) ==
    /\ req[p].pc = "login"
    /\ \E email \in EmailInputs, password \in PasswordInputs :
         LET r == [req[p] EXCEPT !.email = email, !.password = password]
         IN Send(p, LoginCheck(r, UserFindByEmail(NormalizeEmail(email)), now))
    /\ UNCHANGED <<users, posts, lastPostId, now, client>>

\* getCurrentUser
GetCurrentUserResponse(r) ==
    IF r.user = NoUserView
    THEN Respond(r, Response(401, "Not authenticated",
                     "No valid authentication token provided"))
    ELSE Respond(r, [Response(200, "User retrieved successfully", "")
                       EXCEPT !.user = r.user])

GetCurrentUser(p) ==
    /\ req[p].pc = "me"
    /\ Send(p, GetCurrentUserResponse(req[p]))
    /\ UNCHANGED <<users, posts, lastPostId, now, client>>

\* logout
LogoutResponse(r) ==
    Respond(r, Response(200, "Logout successful",
                        "Please discard your authentication token"))

Logout(p) ==
    /\ req[p].pc = "logout"
    /\ Send(p, LogoutResponse(req[p]))
    /\ UNCHANGED <<users, posts, lastPostId, now, client>>

\* a refresh that re-signs the subject under the expiry of the presented token
RefreshTokenResponse_KeepExpiry(r, t) ==
    IF r.userId = 0
    THEN Respond(r, Response(401, "Authentication required",
                     "Valid token required for refresh"))
    ELSE Respond(r, [Response(200, "Token refreshed successfully", "")
                       EXCEPT !.token = [GenerateToken(r.userId, TokenTtl, t)
                                           EXCEPT !.exp = r.hdr.tok.exp]])

\* refreshToken
RefreshTokenResponse(r, t) ==
    IF r.userId = 0
    THEN Respond(r, Response(401, "Authentication required",
                     "Valid token required for refresh"))
    ELSE Respond(r, [Response(200, "Token refreshed successfully", "")
                       EXCEPT !.token = GenerateToken(r.userId, TokenTtl, t)])

RefreshToken(p) ==
    /\ req[p].pc = "refresh"
    /\ Send(p, RefreshTokenResponse(req[p], now))
    /\ UNCHANGED <<users, posts, lastPostId, now, client>>

\* ------------------------------------------------------ post controller
Unexpected(text) == Response(500, text, "An unexpected error occurred. Please try again later.")

\* createPost up to the INSERT of Post.create
CreatePostValidate(r) ==
    IF r.userId = 0
    THEN Respond(r, Response(401, "Authentication required",
                     "You must be logged in to create a post"))
    ELSE IF Falsy(r.title) \/ Falsy(r.content)
    THEN Respond(r, Response(400, "Missing required fields",
                     "Both title and content are required"))
    ELSE IF Len(Trim(r.title)) < MinTitleLen
    THEN Respond(r, Response(400, "Title too short",
                     "Title must be at least 3 characters long"))
    ELSE IF Len(Trim(r.content)) < MinContentLen
    THEN Respond(r, Response(400, "Content too short",
                     "Content must be at least 10 characters long"))
    ELSE [r EXCEPT !.pc = "createPost.findById"]

\* a create that takes the owner from the body when the body names one
PostOwner_FromBody(r) == IF r.bodyAuthorId # 0 THEN r.bodyAuthorId ELSE r.userId

\* the authorId createPost passes to Post.create: req.userId
PostOwner(r) == r.userId

\* a create that stores the fields as they were sent
NewPostRow_Untrimmed(id, title, content, authorId, t) ==
    [id |-> id, title |-> title, content |-> content,
     authorId |-> authorId, createdAt |-> t]

\* the row Post.create inserts: INSERT INTO posts (title, content, authorId)
NewPostRow(id, title, content, authorId, t) ==
    [id |-> id, title |-> Trim(title), content |-> Trim(content),
     authorId |-> authorId, createdAt |-> t]

CreatePost(p) ==
    /\ req[p].pc = "createPost"
    /\ \E body \in PostBodies :
         LET r == [req[p] EXCEPT !.title = body.title, !.content = body.content,
                                 !.bodyAuthorId = body.authorId]
             next == CreatePostValidate(r)
         IN IF next.pc = "createPost.findById"
            THEN /\ lastPostId < MaxPosts
                 /\ posts' = posts \cup
                      { NewPostRow(lastPostId + 1, r.title, r.content, PostOwner(r), now) }
                 /\ lastPostId' = lastPostId + 1
                 /\ Send(p, [next EXCEPT !.postId = lastPostId + 1])
            ELSE /\ Send(p, next)
                 /\ UNCHANGED <<posts, lastPostId>>
    /\ UNCHANGED <<users, now, client>>

\* createPost after Post.findById(result.id) settled: a missing row makes
\* post.toObject() throw, which the catch answers 500
CreatePostRespond(r, post) ==
    IF post = NoPost
    THEN Respond(r, Unexpected("Failed to create post"))
    ELSE Respond(r, [Response(201, "Post created successfully", "")
                       EXCEPT !.post = ToObject(post)])

CreatePostDone(p) ==
    /\ req[p].pc = "createPost.findById"
    /\ Send(p, CreatePostRespond(req[p], PostFindById(req[p].postId)))
    /\ UNCHANGED <<users, posts, lastPostId, now, client>>

\* getPostById
GetPostByIdResponse(r, post) ==
    IF post = NoPost
    THEN Respond(r, Response(404, "Post not found", "No post found with ID"))
    ELSE Respond(r, [Response(200, "Post retrieved successfully", "")
                       EXCEPT !.post = ToObject(post)])

GetPostById(p) ==
    /\ req[p].pc = "getPostById"
    /\ Send(p, GetPostByIdResponse(req[p], PostFindById(req[p].postId)))
    /\ UNCHANGED <<users, posts, lastPostId, now, client>>

\* updatePost up to post.update's UPDATE statement: the controller's checks,
\* the load, then the model's ownership check and validation
UpdatePostLoad(r, post) ==
    IF r.userId = 0
    THEN Respond(r, Response(401, "Authentication required",
                     "You must be logged in to update a post"))
    ELSE IF Falsy(r.title) \/ Falsy(r.content)
    THEN Respond(r, Response(400, "Missing required fields",
                     "Both title and content are required"))
    ELSE IF post = NoPost
    THEN Respond(r, Response(404, "Post not found", "No post found with ID"))
    ELSE IF post.authorId # r.userId
    THEN Respond(r, Response(403, "Permission denied", "You can only edit your own posts"))
    ELSE IF Len(Trim(r.title)) = 0 \/ Len(Trim(r.content)) = 0
    THEN Respond(r, Unexpected("Failed to update post"))
    ELSE [r EXCEPT !.post = post, !.pc = "updatePost.update"]

UpdatePost(p) ==
    /\ req[p].pc = "updatePost"
    /\ \E body \in PostBodies :
         LET r == [req[p] EXCEPT !.title = body.title, !.content = body.content,
                                 !.bodyAuthorId = body.authorId]
         IN Send(p, UpdatePostLoad(r, PostFindById(r.postId)))
    /\ UNCHANGED <<users, posts, lastPostId, now, client>>

\* UPDATE posts SET title = ?, content = ? WHERE id = ?
UpdateRow(table, id, title, content) ==
    { IF row.id = id THEN [row EXCEPT !.title = title, !.content = content] ELSE row :
        row \in table }

\* an update that also writes a client-supplied authorId
UpdatePostWrite_MassAssign(r, table) ==
    [req |-> Respond(r, [Response(200, "Post updated successfully", "")
                           EXCEPT !.post = ToObject([r.post EXCEPT
                                                       !.title = Trim(r.title),
                                                       !.content = Trim(r.content)])]),
     posts |-> { IF row.id = r.post.id /\ r.bodyAuthorId # 0
                 THEN [row EXCEPT !.title = Trim(r.title), !.content = Trim(r.content),
                                  !.authorId = r.bodyAuthorId]
                 ELSE row : row \in UpdateRow(table, r.post.id, Trim(r.title), Trim(r.content)) }]

\* updatePost from the UPDATE on: the in-memory post is answered back
UpdatePostWrite(r, table) ==
    [req |-> Respond(r, [Response(200, "Post updated successfully", "")
                           EXCEPT !.post = ToObject([r.post EXCEPT
                                                       !.title = Trim(r.title),
                                                       !.content = Trim(r.content)])]),
     posts |-> UpdateRow(table, r.post.id, Trim(r.title), Trim(r.content))]

UpdatePostDone(p) ==
    /\ req[p].pc = "updatePost.update"
    /\ LET out == UpdatePostWrite(req[p], posts)
       IN /\ Send(p, out.req)
          /\ posts' = out.posts
    /\ UNCHANGED <<users, lastPostId, now, client>>

\* deletePost up to post.delete's DELETE statement
DeletePostLoad(r, post) ==
    IF r.userId = 0
    THEN Respond(r, Response(401, "Authentication required",
                     "You must be logged in to delete a post"))
    ELSE IF post = NoPost
    THEN Respond(r, Response(404, "Post not found", "No post found with ID"))
    ELSE IF post.authorId # r.userId
    THEN Respond(r, Response(403, "Permission denied", "You can only delete your own posts"))
    ELSE [r EXCEPT !.post = post, !.pc = "deletePost.delete"]

DeletePost(p) ==
    /\ req[p].pc = "deletePost"
    /\ Send(p, DeletePostLoad(req[p], PostFindById(req[p].postId)))
    /\ UNCHANGED <<users, posts, lastPostId, now, client>>

\* deletePost from the DELETE on: result.changes === 0 throws, answered 500
DeletePostWrite(r, table) ==
    IF \E row \in table : row.id = r.post.id
    THEN [req |-> Respond(r, Response(204, "", "")),
          posts |-> { row \in table : row.id # r.post.id }]
    ELSE [req |-> Respond(r, Unexpected("Failed to delete post")),
          posts |-> table]

DeletePostDone(p) ==
    /\ req[p].pc = "deletePost.delete"
    /\ LET out == DeletePostWrite(req[p], posts)
       IN /\ Send(p, out.req)
          /\ posts' = out.posts
    /\ UNCHANGED <<users, lastPostId, now, client>>

\* Post.toSummary(maxContentLength = 200)
MaxSummaryLen == 200

LastIndexOfSpace(str) ==
    IF \E i \in 1..Len(str) : IsSpace(str[i])
    THEN CHOOSE i \in 1..Len(str) :
           IsSpace(str[i]) /\ \A j \in (i + 1)..Len(str) : ~IsSpace(str[j])
    ELSE 0

ToSummary(post) ==
    IF Len(post.content) > MaxSummaryLen
    THEN [post EXCEPT !.content =
            SubSeq(post.content, 1,
                   LastIndexOfSpace(SubSeq(post.content, 1, MaxSummaryLen)) - 1)
            \o <<".", ".", ".">>]
    ELSE post

\* the rows Post.findAll(authorId) selects; a null authorId selects all
Selected(table, authorId) ==
    { row \in table : authorId = 0 \/ row.authorId = authorId }

\* a query without ORDER BY: the rows in any order
FindAll_Unordered(table, authorId) ==
    LET rows == Selected(table, authorId)
        n == Cardinality(rows)
    IN { list \in [1..n -> rows] : \A i, j \in 1..n : i # j => list[i] # list[j] }

\* ORDER BY posts.createdAt DESC: every order of the rows in which createdAt
\* never increases (rows of the same second come in any order)
FindAll(table, authorId) ==
    LET rows == Selected(table, authorId)
        n == Cardinality(rows)
    IN { list \in [1..n -> rows] :
           /\ \A i, j \in 1..n : i # j => list[i] # list[j]
           /\ \A i, j \in 1..n : i < j => list[i].createdAt >= list[j].createdAt }

\* getAllPosts, given the user the author filter resolved to and the list
\* findAll returned; author = -1 stands for no ?author= parameter
GetAllPostsResponse(r, authorUser, list) ==
    IF r.author # -1 /\ r.author <= 0
    THEN Respond(r, Response(400, "Invalid author ID", "Author ID must be a positive number"))
    ELSE IF r.author # -1 /\ authorUser = NoUser
    THEN Respond(r, Response(404, "Author not found", "No user found with ID"))
    ELSE Respond(r, [Response(200, IF r.author # -1
                                   THEN "Posts by author retrieved successfully"
                                   ELSE "All posts retrieved successfully", "")
                       EXCEPT !.posts = [i \in 1..Len(list) |-> ToSummary(JoinAuthor(list[i]))]])

GetAllPosts(p) ==
    /\ req[p].pc = "getAllPosts"
    /\ \E author \in -1..MaxUsers :
         \E list \in FindAll(posts, IF author = -1 THEN 0 ELSE author) :
            Send(p, GetAllPostsResponse([req[p] EXCEPT !.author = author],
                                        UserFindById(author), list))
    /\ UNCHANGED <<users, posts, lastPostId, now, client>>

\* ------------------------------------------------------- specification
\* Requests are served one at a time.  Spec is the identity layer: the auth
\* routes and both resolution modes, under every header and a running clock.
Next ==
    \/ Tick
    \/ \E p \in SeqProcs :
         \/ StartOn(p, IdentityRoutes, HeaderInputs)
         \/ AuthVerify(p)
         \/ AuthLookup(p)
         \/ OptAuthVerify(p)
         \/ OptAuthLookup(p)
         \/ Register(p)
         \/ RegisterCreate(p)
         \/ Login(p)
         \/ GetCurrentUser(p)
         \/ Logout(p)
         \/ RefreshToken(p)

Spec == Init /\ [][Next]_vars

\* PostSpec is the post lifecycle: the post routes, within one second of
\* wall-clock time, on a store in which two identities have registered.
RegisteredUsers ==
    LET first == RegisterInsert([IdleReq EXCEPT !.email = <<"a", "@", "x", ".", "c">>,
                                                !.password = "secret1"],
                                <<>>, FreshSalt(<<>>), 0).users
    IN RegisterInsert([IdleReq EXCEPT !.email = <<"B", "@", "x", ".", "c">>,
                                      !.password = "secret1"],
                      first, FreshSalt(first), 0).users

PostInit ==
    /\ users = RegisteredUsers
    /\ posts = {}
    /\ lastPostId = 0
    /\ now = 0
    /\ req = [p \in Procs |-> IdleReq]
    /\ client = IdleClient

PostNext ==
    \E p \in SeqProcs :
       \/ StartOn(p, PostRoutes, PostHeaderInputs)
       \/ AuthVerify(p)
       \/ AuthLookup(p)
       \/ CreatePost(p)
       \/ CreatePostDone(p)
       \/ GetAllPosts(p)
       \/ GetPostById(p)
       \/ UpdatePost(p)
       \/ UpdatePostDone(p)
       \/ DeletePost(p)
       \/ DeletePostDone(p)

PostSpec == PostInit /\ [][PostNext]_vars

\* RaceSpec is registration and login under concurrency: two requests are
\* in service at once and their awaits interleave in every order.
RaceRoutes == { "register", "login" }

RaceNext ==
    \E p \in Procs :
       \/ StartOn(p, RaceRoutes, PublicHeaderInputs)
       \/ Register(p)
       \/ RegisterCreate(p)
       \/ Login(p)

RaceSpec == Init /\ [][RaceNext]_vars

\* ListSpec is listing over time: posts are created and deleted while the
\* wall clock runs, and the list is read in between.
ListRoutes == { "createPost", "deletePost", "getAllPosts" }

ListNext ==
    \/ Tick
    \/ \E p \in SeqProcs :
         \/ StartOn(p, ListRoutes, PostHeaderInputs)
         \/ AuthVerify(p)
         \/ AuthLookup(p)
         \/ CreatePost(p)
         \/ CreatePostDone(p)
         \/ DeletePost(p)
         \/ DeletePostDone(p)
         \/ GetAllPosts(p)

ListSpec == PostInit /\ [][ListNext]_vars

\* PostRaceSpec is update and delete under concurrency: one post of the
\* first identity is in the store, two requests are in service at once and
\* their awaits interleave in every order.
PostRaceRoutes == { "updatePost", "deletePost" }

PostRaceInit ==
    /\ users = RegisteredUsers
    /\ posts = { NewPostRow(1, TitleOk, ContentOk, 1, 0) }
    /\ lastPostId = 1
    /\ now = 0
    /\ req = [p \in Procs |-> IdleReq]
    /\ client = IdleClient

PostRaceNext ==
    \E p \in Procs :
       \/ StartOn(p, PostRaceRoutes, PostHeaderInputs)
       \/ AuthVerify(p)
       \/ AuthLookup(p)
       \/ UpdatePost(p)
       \/ UpdatePostDone(p)
       \/ DeletePost(p)
       \/ DeletePostDone(p)

PostRaceSpec == PostRaceInit /\ [][PostRaceNext]_vars

\* ------------------------------------------------- global error handler
\* NODE_ENV, as the deployment sets it
NodeEnvs == { "development", "production" }

\* errors that the stages mounted before the routers pass to next(error):
\* express.json on a body that is not JSON, and the cors origin callback
Error(name, message, stack) == [name |-> name, message |-> message, stack |-> stack]
JsonSyntaxError ==
    Error("SyntaxError", "Unexpected token } in JSON at position 1",
          "SyntaxError: Unexpected token } in JSON at position 1 at JSON.parse")
CorsError == Error("Error", "Not allowed by CORS", "Error: Not allowed by CORS at origin")
ErrorInputs == { JsonSyntaxError, CorsError }

\* app.use((error, req, res, next) => ...)
GlobalErrorHandler(r, error, nodeEnv) ==
    IF r.resp # NoResponse
    THEN r
    ELSE IF error.name = "ValidationError"
    THEN Respond(r, Response(400, "Validation failed", error.message))
    ELSE IF error.name = "CastError"
    THEN Respond(r, Response(400, "Invalid data format",
                     "The provided data format is incorrect"))
    ELSE IF error.message = CorsError.message
    THEN Respond(r, Response(403, "CORS policy violation",
                     "This origin is not allowed to access this API"))
    ELSE Respond(r, [Response(500, "Internal server error",
                              IF nodeEnv = "development" THEN error.message
                              ELSE "Something went wrong")
                       EXCEPT !.stack = IF nodeEnv = "development" THEN error.stack ELSE ""])

\* a request that a stage before the routers fails: the error goes straight
\* to the global error handler
RequestFails(p) ==
    /\ req[p].pc \in { "idle", "done" }
    /\ \E route \in RaceRoutes, error \in ErrorInputs, nodeEnv \in NodeEnvs :
         Send(p, GlobalErrorHandler([IdleReq EXCEPT !.route = route], error, nodeEnv))
    /\ UNCHANGED <<users, posts, lastPostId, now, client>>

\* ErrorSpec is RaceSpec with requests that fail before they reach a router.
ErrorNext ==
    \/ RaceNext
    \/ \E p \in Procs : RequestFails(p)

ErrorSpec == Init /\ [][ErrorNext]_vars

\* ================================================================ claims
\* the post row with the given id, as stored (NoPost when there is none)
Stored(id) == PostFindById(id)

\* the request of slot p resolved an identity through authenticateToken
Resolved(r) == r.route \in AuthRoutes /\ r.nextCalls = 1 /\ r.userId # 0

\* C1: an update or delete of A's post requested by a resolved identity
\* B # A is answered 403 and leaves the posts table as it was, and a row is
\* changed or removed only by a request of its owner.
C1_NonOwnerForbidden ==
    [][\A p \in Procs :
         /\ ( /\ req[p].pc \in { "updatePost", "deletePost" }
              /\ Resolved(req[p])
              /\ Stored(req[p].postId) # NoPost
              /\ Stored(req[p].postId).authorId # req[p].userId
              /\ req'[p] # req[p] )
            => ( /\ req'[p].pc = "done"
                 /\ req'[p].resp.status = 403
                 /\ posts' = posts )
         /\ \A row \in posts :
              ( row \notin posts' /\ req'[p] # req[p] ) => req[p].userId = row.authorId
    ]_vars

\* C1, the part the code keeps: whatever a non-owner's update or delete is
\* answered, the posts table is left as it was.
C1_NonOwnerChangesNothing ==
    [][\A p \in Procs : \A row \in posts :
         ( row \notin posts' /\ req'[p] # req[p] ) => req[p].userId = row.authorId
    ]_vars

\* a non-owner's update was turned down for its body before ownership was looked at
C1_Witness ==
    \E p \in Procs :
       /\ req[p].pc = "done"
       /\ req[p].route = "updatePost"
       /\ Resolved(req[p])
       /\ Stored(req[p].postId) # NoPost
       /\ Stored(req[p].postId).authorId # req[p].userId
       /\ req[p].resp.status = 400

\* C3: a post's authorId is the same in every later state: no step changes
\* the authorId of a stored row, and an id is never given to a second row.
C3_OwnerImmutable ==
    [][ /\ \A row \in posts : \A row2 \in posts' :
             row2.id = row.id => row2.authorId = row.authorId
        /\ \A row2 \in posts' :
             (\A row \in posts : row.id # row2.id) => row2.id > lastPostId
      ]_vars

\* an owner's update went through although its body named another owner
C3_Witness ==
    \E p \in Procs :
       /\ req[p].pc = "done"
       /\ req[p].route = "updatePost"
       /\ req[p].resp.status = 200
       /\ req[p].bodyAuthorId # 0
       /\ req[p].bodyAuthorId # req[p].userId
       /\ Stored(req[p].postId).authorId = req[p].userId
       /\ Stored(req[p].postId).title = Trim(req[p].title)

\* C4: the row a create inserts, and the post it answers, carry as authorId
\* the subject of the request's bearer token, whatever authorId the body names.
C4_OwnerFromIdentity ==
    \A p \in Procs :
       req[p].route = "createPost" =>
          /\ req[p].pc = "createPost.findById" =>
               /\ Stored(req[p].postId) # NoPost
               /\ Stored(req[p].postId).authorId = req[p].hdr.tok.sub
               /\ Stored(req[p].postId).authorId = req[p].user.id
          /\ ( req[p].pc = "done" /\ req[p].resp.status = 201 ) =>
               /\ req[p].resp.post.authorId = req[p].hdr.tok.sub
               /\ Stored(req[p].postId).authorId = req[p].hdr.tok.sub

\* a post was created by a request whose body named somebody else as owner
C4_Witness ==
    \E p \in Procs :
       /\ req[p].pc = "done"
       /\ req[p].route = "createPost"
       /\ req[p].resp.status = 201
       /\ req[p].bodyAuthorId # 0
       /\ req[p].bodyAuthorId # req[p].userId

\* C7: the posts table changes only in a step of a request that passed
\* authenticateToken with a token that verifies and names an existing user;
\* read-by-id and list are answered 200 without any Authorization header.
C7_MutationsAuthenticated ==
    [][\A p \in Procs :
         /\ ( posts' # posts /\ req'[p] # req[p] ) =>
               /\ Resolved(req[p])
               /\ JwtVerify(req[p].hdr.tok, now) = "ok"
               /\ UserFindById(req[p].hdr.tok.sub) # NoUser
               /\ req[p].userId = req[p].hdr.tok.sub
         /\ ( /\ req[p].pc = "getPostById"
              /\ req[p].hdr = NoHeader
              /\ Stored(req[p].postId) # NoPost
              /\ req'[p] # req[p] )
            => ( req'[p].resp.status = 200 /\ req'[p].resp.post.id = req[p].postId )
         /\ ( /\ req[p].pc = "getAllPosts"
              /\ req[p].hdr = NoHeader
              /\ req'[p] # req[p]
              /\ req'[p].author = -1 )
            => ( /\ req'[p].resp.status = 200
                 /\ Len(req'[p].resp.posts) = Cardinality(posts) )
    ]_vars

\* a post was deleted by its owner, and a request with no header read a post
C7_Witness ==
    \E p \in Procs :
       /\ req[p].pc = "done"
       /\ req[p].route = "getPostById"
       /\ req[p].hdr = NoHeader
       /\ req[p].resp.status = 200
       /\ lastPostId > Cardinality(posts)

\* C2: a request gets an identity attached by authenticateToken only if its
\* token carries the signature, the issuer and the audience generateToken writes.
C2_IssuerAudienceChecked ==
    \A p \in Procs :
       Resolved(req[p]) =>
          /\ req[p].hdr.tok.sig = JwtSecret
          /\ req[p].hdr.tok.iss = TokenIssuer
          /\ req[p].hdr.tok.aud = TokenAudience

\* the reason a 401 of the middleware gives, read off its payload
RejectionReason(resp) ==
    CASE resp.text \in { "Access denied. No valid token provided.",
                         "Access denied. Token format is invalid." } -> "missing credential"
      [] resp.text = "Token has expired" -> "expired"
      [] resp.text = "Invalid token" -> "malformed"
      [] resp.text = "User no longer exists" -> "identity gone"
      [] OTHER -> "other"

Rejected(r, reason) ==
    /\ r.pc = "done"
    /\ r.resp.status = 401
    /\ RejectionReason(r.resp) = reason
    /\ r.nextCalls = 0
    /\ r.userId = 0

\* C5: authenticateToken answers by the five rows: no bearer value ->
\* 'missing credential'; verify fails expired -> 'expired'; verify fails
\* malformed or forged -> 'malformed'; verified and findById finds no row ->
\* 'identity gone'; verified and findById finds the row -> next() with
\* req.user the safe view and req.userId the token's subject.  The four
\* rejections carry four different payloads.
C5_ResolutionTable ==
    [][\A p \in Procs :
         LET r == req[p]
             r2 == req'[p]
             tok == req[p].hdr.tok
             bearer == ~NoBearer(req[p].hdr) /\ req[p].hdr.tok # NoToken
         IN /\ ( r.pc = "authenticateToken" /\ r2 # r ) =>
                 /\ ~bearer => Rejected(r2, "missing credential")
                 /\ ( bearer /\ JwtVerify(tok, now) = "TokenExpiredError" )
                      => Rejected(r2, "expired")
                 /\ ( bearer /\ JwtVerify(tok, now) = "JsonWebTokenError" )
                      => Rejected(r2, "malformed")
                 /\ ( bearer /\ JwtVerify(tok, now) = "ok" )
                      => ( /\ r2.pc = "authenticateToken.findById"
                           /\ r2.decoded = tok.sub
                           /\ r2.resp = NoResponse )
            /\ ( r.pc = "authenticateToken.findById" /\ r2 # r /\ r2.resp.status # 500 ) =>
                 /\ UserFindById(tok.sub) = NoUser => Rejected(r2, "identity gone")
                 /\ UserFindById(tok.sub) # NoUser
                      => ( /\ r2.pc = r.route
                           /\ r2.nextCalls = 1
                           /\ r2.resp = NoResponse
                           /\ r2.user = ToSafeObject(UserFindById(tok.sub))
                           /\ r2.userId = tok.sub )
    ]_vars

\* a verified token of an existing identity went through: the controller is next
C5_Witness ==
    \E p \in Procs :
       /\ req[p].pc = "me"
       /\ req[p].nextCalls = 1
       /\ req[p].userId = req[p].hdr.tok.sub
       /\ req[p].user = ToSafeObject(users[req[p].userId])

\* C6: optionalAuth sends no response on any path and calls next(): with no
\* header, an expired or malformed token, an unknown subject or a failed
\* lookup it leaves req.user = null and req.userId = null; it attaches an
\* identity only for a verified token whose subject is in the store.
C6_OptionalNeverRejects ==
    [][\A p \in Procs :
         LET r == req[p]
             r2 == req'[p]
             tok == req[p].hdr.tok
             verifies == /\ ~NoBearer(req[p].hdr)
                         /\ req[p].hdr.tok # NoToken
                         /\ JwtVerify(req[p].hdr.tok, now) = "ok"
             anonymous == /\ req'[p].pc = "done"
                          /\ req'[p].nextCalls = 1
                          /\ req'[p].user = NoUserView
                          /\ req'[p].userId = 0
         IN ( r.route = "optional" /\ r2 # r /\ r.pc # "done" ) =>
              /\ r2.resp = NoResponse
              /\ ( r.pc = "optionalAuth" /\ ~verifies ) => anonymous
              /\ ( r.pc = "optionalAuth" /\ verifies ) => r2.pc = "optionalAuth.findById"
              /\ r.pc = "optionalAuth.findById" =>
                   /\ r2.pc = "done"
                   /\ r2.nextCalls = 1
                   /\ UserFindById(tok.sub) = NoUser => anonymous
                   /\ \/ anonymous
                      \/ ( /\ r2.userId = tok.sub
                           /\ r2.user = ToSafeObject(UserFindById(tok.sub)) )
    ]_vars

\* a verified token of a registered identity ended anonymous: the lookup failed
C6_Witness ==
    \E p \in Procs :
       /\ req[p].pc = "done"
       /\ req[p].route = "optional"
       /\ req[p].decoded # 0
       /\ UserFindById(req[p].decoded) # NoUser
       /\ req[p].userId = 0
       /\ req[p].nextCalls = 1
       /\ req[p].resp = NoResponse

\* C8: a token generateToken(id, ttl) makes at clock t verifies with subject
\* id at every clock before t + ttl and is 'expired' at every clock from
\* t + ttl on: for the tokens register, login and refresh hand out, for every
\* ttl the function may be given, and in what authenticateToken answers.
C8_ExpiryWindow ==
    [][\A p \in Procs :
         LET r == req[p]
             r2 == req'[p]
             tok == req[p].hdr.tok
             Window(token, issuedAt, ttl) ==
                \A c \in issuedAt..(MaxClock + ttl) :
                   JwtVerify(token, c) =
                      IF c < issuedAt + ttl THEN "ok" ELSE "TokenExpiredError"
         IN /\ ( r.resp.token = NoToken /\ r2.resp.token # NoToken ) =>
                 /\ Window(r2.resp.token, now, TokenTtl)
                 /\ r2.resp.token.sub =
                      IF r.route = "refresh" THEN r.userId ELSE r2.resp.user.id
            /\ now' # now =>
                 \A id \in UserIds : \A ttl \in 1..(TokenTtl + 1) :
                    \A t \in {now, now'} :
                       /\ Window(GenerateToken(id, ttl, t), t, ttl)
                       /\ GenerateToken(id, ttl, t).sub = id
            /\ ( /\ r.pc = "authenticateToken"
                 /\ r2 # r
                 /\ ~NoBearer(r.hdr)
                 /\ tok \in IssuedTokens ) =>
                 IF now < tok.iat + TokenTtl
                 THEN r2.pc = "authenticateToken.findById" /\ r2.decoded = tok.sub
                 ELSE Rejected(r2, "expired")
    ]_vars

\* a token that register, login or refresh could have issued was turned down in the
\* very second it expired
C8_Witness ==
    \E p \in Procs :
       /\ req[p].pc = "done"
       /\ req[p].hdr.tok \in IssuedTokens
       /\ req[p].resp.text = "Token has expired"
       /\ now = req[p].hdr.tok.iat + TokenTtl

\* the password a stored digest was made from
RegisteredPassword(u) == u.passwordHash.digest

\* the identity registered under the email a login names
Registered(r) == UserFindByEmail(NormalizeEmail(r.email))

C10_SameRejection ==
    \A p \in Procs :
       ( req[p].pc = "done" /\ req[p].route = "login" /\ ~Falsy(req[p].email) ) =>
          /\ ( req[p].password # "" /\ Registered(req[p]) = NoUser )
               => req[p].resp = LoginBadPasswordResponse
          /\ ( /\ req[p].password # ""
               /\ Registered(req[p]) # NoUser
               /\ req[p].password # RegisteredPassword(Registered(req[p])) )
               => req[p].resp = LoginNoUserResponse
          /\ req[p].password = "" => req[p].resp.status = 400

\* with an identity in the store, a login under an unknown email was turned down
C10_Witness ==
    \E p \in Procs :
       /\ req[p].pc = "done"
       /\ req[p].route = "login"
       /\ users # <<>>
       /\ req[p].password # ""
       /\ ~Falsy(req[p].email)
       /\ Registered(req[p]) = NoUser
       /\ req[p].resp.status = 401
\* C11: in every state of the users table no two rows have the same
\* normalized email, whatever the order in which the pre-checks and the
\* INSERTs of concurrent register requests run.
C11_EmailUnique ==
    \A i, j \in 1..Len(users) :
       i # j => NormalizeEmail(users[i].email) # NormalizeEmail(users[j].email)

\* two registrations of one normalized email both passed the pre-check; the
\* first INSERT made the row and the second was refused by the table
C11_Witness ==
    \E p, q \in Procs :
       /\ p # q
       /\ req[p].route = "register" /\ req[q].route = "register"
       /\ req[p].pc = "done" /\ req[q].pc = "done"
       /\ NormalizeEmail(req[p].email) = NormalizeEmail(req[q].email)
       /\ req[p].resp.status = 201
       /\ req[q].resp.status = 500
       /\ Len(users) = 1
\* the fields of a registration are in order: both given, the email
\* well-formed as sent, the password long enough
RegistrationWellFormed(r) ==
    /\ ~Falsy(r.email)
    /\ EmailRegexTest(r.email)
    /\ Len(r.password) >= MinPasswordLen

\* C12: a well-formed registration whose normalized email is in the users
\* table when it is answered gets 409, not 400 and not 500, adds no row and
\* carries no token; this at the pre-check and at the INSERT alike.
C12_DuplicateIsConflict ==
    [][\A p \in Procs :
         ( /\ req[p].pc \in { "register", "register.insert" }
           /\ req'[p] # req[p]
           /\ RegistrationWellFormed(req'[p])
           /\ UserFindByEmail(NormalizeEmail(req'[p].email)) # NoUser )
         => ( /\ req'[p].pc = "done"
              /\ req'[p].resp.status = 409
              /\ req'[p].resp.token = NoToken
              /\ users' = users )
    ]_vars
\* C13: the email is lowercased and trimmed before it is looked at: a
\* registration under any spelling of a registered email (other letter case,
\* blanks around it) is answered as a duplicate, 409, and adds no row; a row
\* stores the normalized email; a login under any spelling, with the
\* registered password, is answered with the identity that owns the email.
C13_NormalizedBeforeUse ==
    [][\A p \in Procs :
         LET r2 == req'[p]
             owner == UserFindByEmail(NormalizeEmail(req'[p].email))
         IN /\ ( /\ req[p].pc = "register"
                 /\ r2 # req[p]
                 /\ ~Falsy(r2.email)
                 /\ Len(r2.password) >= MinPasswordLen
                 /\ owner # NoUser )
               => ( r2.pc = "done" /\ r2.resp.status = 409 /\ users' = users )
            /\ ( req[p].pc = "register.insert" /\ r2.resp.status = 201 )
               => ( /\ users'[Len(users')].email = NormalizeEmail(r2.email)
                    /\ r2.resp.user.email = NormalizeEmail(r2.email) )
            /\ ( /\ req[p].pc = "login"
                 /\ r2 # req[p]
                 /\ owner # NoUser
                 /\ r2.password = RegisteredPassword(owner) )
               => ( r2.resp.status = 200 /\ r2.resp.user = ToSafeObject(owner) )
    ]_vars
\* C14: a registration with a malformed email or a password of fewer than
\* 6 characters is answered 400; no registration that is turned down
\* changes the users table; one that is answered 201 appends exactly one
\* row and returns that row's safe view and a token whose subject is its id.
C14_RegistrationValidated ==
    [][\A p \in Procs :
         LET r2 == req'[p]
             row == users'[Len(users')]
         IN /\ ( /\ req[p].pc = "register"
                 /\ r2 # req[p]
                 /\ \/ ~EmailRegexTest(r2.email)
                    \/ ~EmailRegexTest(NormalizeEmail(r2.email))
                    \/ Len(r2.password) < MinPasswordLen )
               => ( /\ r2.pc = "done"
                    /\ r2.resp.status = 400
                    /\ r2.resp.token = NoToken
                    /\ users' = users )
            /\ ( /\ r2.route = "register"
                 /\ r2 # req[p]
                 /\ r2.pc = "done"
                 /\ r2.resp.status # 201 )
               => ( users' = users /\ r2.resp.token = NoToken )
            /\ ( /\ r2.route = "register"
                 /\ r2 # req[p]
                 /\ r2.resp.status = 201 )
               => ( /\ users' = Append(users, row)
                    /\ row.email = NormalizeEmail(r2.email)
                    /\ BcryptCompare(r2.password, row.passwordHash)
                    /\ Len(r2.password) >= MinPasswordLen
                    /\ r2.resp.user = ToSafeObject(row)
                    /\ r2.resp.token.sub = row.id
                    /\ JwtVerify(r2.resp.token, now) = "ok" )
            /\ ( users' # users /\ r2 # req[p] ) => r2.resp.status = 201
    ]_vars

\* with one identity in the table, a registration under a new, well-formed
\* email was turned down for its short password
C14_Witness ==
    \E p \in Procs :
       /\ req[p].pc = "done"
       /\ req[p].route = "register"
       /\ req[p].resp.text = "Password too weak"
       /\ EmailRegexTest(req[p].email)
       /\ Len(users) = 1
       /\ UserFindByEmail(NormalizeEmail(req[p].email)) = NoUser
\* C15: for a resolved requester, an update or delete of an id with no row
\* is answered 404 (a delete of a row already gone never 204); 403 is
\* answered only when the row exists and belongs to somebody else.
C15_NotFoundVsForbidden ==
    [][\A p \in Procs :
         LET r == req[p]
             r2 == req'[p]
         IN /\ ( /\ r.pc \in { "updatePost", "deletePost", "deletePost.delete" }
                 /\ Resolved(r)
                 /\ r2 # r
                 /\ Stored(r.postId) = NoPost )
               => ( r2.pc = "done" /\ r2.resp.status = 404 /\ posts' = posts )
            /\ ( /\ r.pc \in { "updatePost", "deletePost" }
                 /\ r2 # r
                 /\ r2.resp.status = 403 )
               => ( /\ Resolved(r)
                    /\ Stored(r.postId) # NoPost
                    /\ Stored(r.postId).authorId # r.userId )
    ]_vars
\* the id was given to a row that a delete has since removed
Deleted(id) == id \in 1..lastPostId /\ Stored(id) = NoPost

\* C16: once a post is deleted its id stays without a row (no create gets
\* the id again) and every read, and every update or delete by a resolved
\* requester, of that id is answered 404; a read of an id that has its row
\* is answered 200 with that post.
C16_DeletedStaysGone ==
    [][\A p \in Procs :
         LET r == req[p]
             r2 == req'[p]
         IN /\ \A id \in 1..lastPostId : Deleted(id) => \A row \in posts' : row.id # id
            /\ ( /\ \/ r.pc = "getPostById"
                    \/ r.pc \in { "updatePost", "deletePost" } /\ Resolved(r)
                 /\ r2 # r
                 /\ Deleted(r.postId) )
               => ( r2.pc = "done" /\ r2.resp.status = 404 )
            /\ ( r.pc = "getPostById" /\ r2 # r /\ Stored(r.postId) # NoPost )
               => ( /\ r2.resp.status = 200
                    /\ r2.resp.post = ToObject(Stored(r.postId)) )
    ]_vars
\* C17: an update by the owner whose title or content is, once trimmed,
\* empty or shorter than the minimum (3 and 10) is answered 400, not 500,
\* and changes no row; every stored row has a title of at least 3 and a
\* content of at least 10 characters.
C17_UpdateRevalidates ==
    [][\A p \in Procs :
         LET r == req[p]
             r2 == req'[p]
         IN /\ ( /\ r.pc = "updatePost"
                 /\ Resolved(r)
                 /\ r2 # r
                 /\ Stored(r.postId) # NoPost
                 /\ Stored(r.postId).authorId = r.userId
                 /\ \/ Len(Trim(r2.title)) < MinTitleLen
                    \/ Len(Trim(r2.content)) < MinContentLen )
               => ( r2.pc = "done" /\ r2.resp.status = 400 /\ posts' = posts )
            /\ \A row \in posts' :
                 Len(row.title) >= MinTitleLen /\ Len(row.content) >= MinContentLen
    ]_vars
\* C18: a create whose trimmed title has fewer than 3 or whose trimmed
\* content has fewer than 10 characters is answered 400 and adds no row;
\* every other create of a resolved requester adds exactly one row, whose
\* title and content are the trimmed inputs, and answers 201 with them.
C18_CreateValidated ==
    [][\A p \in Procs :
         LET r == req[p]
             r2 == req'[p]
             short == \/ Len(Trim(req'[p].title)) < MinTitleLen
                      \/ Len(Trim(req'[p].content)) < MinContentLen
         IN /\ ( r.pc = "createPost" /\ r2 # r /\ short )
               => ( /\ r2.pc = "done"
                    /\ r2.resp.status = 400
                    /\ posts' = posts
                    /\ lastPostId' = lastPostId )
            /\ ( r.pc = "createPost" /\ r2 # r /\ ~short )
               => ( /\ Cardinality(posts') = Cardinality(posts) + 1
                    /\ posts \subseteq posts'
                    /\ \A row \in posts' \ posts :
                         /\ row.id = r2.postId
                         /\ row.title = Trim(r2.title)
                         /\ row.content = Trim(r2.content) )
            /\ ( r.pc = "createPost.findById" /\ r2 # r )
               => ( /\ posts' = posts
                    /\ r2.resp.status = 201
                    /\ r2.resp.post.title = Trim(r2.title)
                    /\ r2.resp.post.content = Trim(r2.content) )
    ]_vars

\* a create whose title and content came padded with blanks was answered 201
C18_Witness ==
    \E p \in Procs :
       /\ req[p].pc = "done"
       /\ req[p].route = "createPost"
       /\ req[p].resp.status = 201
       /\ req[p].title # Trim(req[p].title)
       /\ req[p].content # Trim(req[p].content)
       /\ Stored(req[p].postId).title = Trim(req[p].title)
\* C19: a list answers exactly the rows of the posts table, each once, and
\* with ?author= exactly the rows of that author; a row never comes after a
\* row with a smaller createdAt.
C19_ListExactAndOrdered ==
    [][\A p \in Procs :
         LET r2 == req'[p]
             list == req'[p].resp.posts
             wanted == { row \in posts : r2.author = -1 \/ row.authorId = r2.author }
         IN ( /\ req[p].pc = "getAllPosts"
              /\ r2 # req[p]
              /\ r2.author = -1 \/ UserFindById(r2.author) # NoUser )
            => ( /\ r2.resp.status = 200
                 /\ Len(list) = Cardinality(wanted)
                 /\ { list[i] : i \in 1..Len(list) }
                      = { ToSummary(JoinAuthor(row)) : row \in wanted }
                 /\ \A i, j \in 1..Len(list) :
                      i < j => list[i].createdAt >= list[j].createdAt
                 /\ posts' = posts )
    ]_vars

\* two posts made in different seconds were listed, the newer one first
C19_Witness ==
    \E p \in Procs :
       /\ req[p].pc = "done"
       /\ req[p].route = "getAllPosts"
       /\ Len(req[p].resp.posts) = 2
       /\ req[p].resp.posts[1].createdAt > req[p].resp.posts[2].createdAt
       /\ req[p].resp.posts[1].id > req[p].resp.posts[2].id
\* the fields of the safe view
SafeFields == { "id", "email", "createdAt" }

\* C20: at every point of every request, req.user and the user of the
\* response have the fields id, email and createdAt and no other, a user
\* that is answered is the stored row without its passwordHash, and no
\* post of a response carries a passwordHash.
C20_DigestNeverExposed ==
    \A p \in Procs :
       LET shown == req[p].resp.user
       IN /\ DOMAIN req[p].user = SafeFields
          /\ DOMAIN shown = SafeFields
          /\ "passwordHash" \notin DOMAIN req[p].resp.post
          /\ \A i \in 1..Len(req[p].resp.posts) :
               "passwordHash" \notin DOMAIN req[p].resp.posts[i]
          /\ shown.id # 0 =>
               /\ shown.id \in 1..Len(users)
               /\ shown = [id |-> users[shown.id].id,
                           email |-> users[shown.id].email,
                           createdAt |-> users[shown.id].createdAt]

\* the current identity was answered for a row that holds a digest
C20_Witness ==
    \E p \in Procs :
       /\ req[p].pc = "done"
       /\ req[p].route = "me"
       /\ req[p].resp.status = 200
       /\ req[p].resp.user.id = req[p].hdr.tok.sub
       /\ users[req[p].resp.user.id].passwordHash.digest # ""
\* C21: the refresh controller runs only for a request that passed
\* authenticateToken; it answers 200 with a token whose subject is the
\* subject of the presented token, issued now and expiring one lifetime
\* from now, whatever the presented token's expiry; the request carries no
\* email and no password.
C21_RefreshSameSubjectFreshExpiry ==
    [][\A p \in Procs :
         LET r == req[p]
             r2 == req'[p]
             new == req'[p].resp.token
         IN ( r.pc = "refresh" /\ r2 # r ) =>
              /\ Resolved(r)
              /\ r2.pc = "done"
              /\ r2.resp.status = 200
              /\ new.sub = r.hdr.tok.sub
              /\ new.iat = now
              /\ new.exp = now + TokenTtl
              /\ JwtVerify(new, now) = "ok"
              /\ r2.password = "" /\ Falsy(r2.email)
              /\ users' = users
    ]_vars

\* a token was refreshed a second after it was issued: the new one outlives it
C21_Witness ==
    \E p \in Procs :
       /\ req[p].pc = "done"
       /\ req[p].route = "refresh"
       /\ req[p].resp.status = 200
       /\ req[p].hdr.tok \in IssuedTokens
       /\ req[p].resp.token.sub = req[p].hdr.tok.sub
       /\ req[p].resp.token.exp > req[p].hdr.tok.exp
\* a token register, login or refresh can have handed out by now: made by
\* generateToken, not in the future, for a row that existed when it was made
HandedOut(tok) ==
    /\ tok \in IssuedTokens
    /\ tok.iat <= now
    /\ UserFindById(tok.sub) # NoUser
    /\ UserFindById(tok.sub).createdAt <= tok.iat

\* C22: in every state the requests can lead to (logouts, refreshes and
\* further logins included), a request on a protected route that presents a
\* handed-out, unexpired token of an existing identity passes
\* authenticateToken and reaches its controller with that identity.
C22_NeverRevoked ==
    \A tok \in IssuedTokens : \A route \in { "me", "logout", "refresh" } :
       ( HandedOut(tok) /\ now < tok.exp ) =>
          LET arrived == Dispatch(route, Header(TRUE, "Bearer", tok), 0)
              verified == AuthenticateTokenVerify(arrived, now)
              resolved == AuthenticateTokenResolve(verified, UserFindById(tok.sub), FALSE)
          IN /\ verified.pc = "authenticateToken.findById"
             /\ verified.decoded = tok.sub
             /\ resolved.pc = route
             /\ resolved.userId = tok.sub
             /\ resolved.nextCalls = 1
             /\ resolved.resp = NoResponse

\* a logout was answered for a token that is a second old and not yet expired
C22_Witness ==
    \E p \in Procs :
       /\ req[p].pc = "done"
       /\ req[p].route = "logout"
       /\ req[p].resp.status = 200
       /\ HandedOut(req[p].hdr.tok)
       /\ req[p].hdr.tok.iat < now
       /\ now < req[p].hdr.tok.exp
\* C23: whatever value JWT_EXPIRES_IN is given, a token that register,
\* login or refresh answers expires that many seconds after it was issued.
C23_LifetimeConfigured ==
    \A setting \in ExpiresInSettings : \A p \in Procs :
       req[p].resp.token # NoToken =>
          req[p].resp.token.exp = req[p].resp.token.iat + setting
\* the payloads the catch blocks and the global handler write for a 500
GenericInternal ==
    { Response(500, "Internal server error during authentication", "Please try again later"),
      Response(500, "Registration failed", "An unexpected error occurred. Please try again later."),
      Response(500, "Login failed", "An unexpected error occurred. Please try again later."),
      Response(500, "Internal server error", "Something went wrong") }

\* C24: every 500 that is answered is one of the fixed generic payloads: its
\* details are not the message of the error and it has no stack, under
\* every NODE_ENV.
C24_InternalIsGeneric ==
    \A p \in Procs :
       req[p].resp.status = 500 =>
          /\ req[p].resp \in GenericInternal
          /\ req[p].resp.stack = ""
          /\ \A error \in ErrorInputs : req[p].resp.details # error.message
\* C25: of two registrations of one normalized email that both passed the
\* pre-check, the one whose INSERT runs first is answered 201 and the other,
\* whose INSERT finds the email taken, is answered 409 and adds no row.
C25_RaceLoserIsConflict ==
    [][\A p, q \in Procs :
         ( /\ p # q
           /\ req[p].pc = "register.insert"
           /\ req'[p] # req[p]
           /\ req[q].route = "register"
           /\ NormalizeEmail(req[q].email) = NormalizeEmail(req[p].email) )
         => /\ ( req[q].pc = "register.insert" ) =>
                 ( /\ req'[p].resp.status = 201
                   /\ Len(users') = Len(users) + 1 )
            /\ ( req[q].pc = "done" /\ req[q].resp.status = 201 ) =>
                 ( /\ req'[p].resp.status = 409
                   /\ users' = users )
    ]_vars
\* C26: a delete that reaches its DELETE statement is answered 204 when the
\* statement removes the row and 404 when the row is already gone (another
\* delete of the owner removed it after both had loaded it); never 500, and
\* never 204 for a statement that removed nothing.
C26_DoubleDeleteIsNotFound ==
    [][\A p \in Procs :
         ( req[p].pc = "deletePost.delete" /\ req'[p] # req[p] ) =>
            IF Stored(req[p].post.id) # NoPost
            THEN /\ req'[p].resp.status = 204
                 /\ posts' = { row \in posts : row.id # req[p].post.id }
            ELSE /\ req'[p].resp.status = 404
                 /\ posts' = posts
    ]_vars

\* C27: an update answered 200 leaves, right after its UPDATE statement, a
\* row with the id, title and content of the answer; an UPDATE that matched
\* no row (the owner's delete ran after the update had loaded the post) is
\* not answered 200.
C27_UpdateSuccessIsStored ==
    [][\A p \in Procs :
         ( /\ req[p].pc = "updatePost.update"
           /\ req'[p] # req[p]
           /\ req'[p].resp.status = 200 )
         => \E row \in posts' :
               /\ row.id = req'[p].resp.post.id
               /\ row.title = req'[p].resp.post.title
               /\ row.content = req'[p].resp.post.content
    ]_vars
\* C28: a request in authenticateToken is either still waiting for its
\* lookup (nothing sent, next not called) or has one of two outcomes: a
\* response and no next(), or one next() and no response; a request in
\* optionalAuth ends with one next() and no response; and in each stage of
\* either middleware the request has a step to take.
C28_OneOutcome ==
    [][\A p \in Procs :
         LET r == req[p]
             r2 == req'[p]
             rejected == /\ req'[p].pc = "done"
                         /\ req'[p].resp # NoResponse
                         /\ req'[p].nextCalls = 0
             passed == /\ req'[p].pc = IF req[p].route \in OptionalRoutes
                                       THEN "done" ELSE req[p].route
                       /\ req'[p].resp = NoResponse
                       /\ req'[p].nextCalls = 1
             waiting == /\ req'[p].resp = NoResponse
                        /\ req'[p].nextCalls = 0
         IN /\ ( r.pc = "authenticateToken" /\ r2 # r ) =>
                 \/ rejected
                 \/ waiting /\ r2.pc = "authenticateToken.findById"
            /\ ( r.pc = "authenticateToken.findById" /\ r2 # r ) => ( rejected \/ passed )
            /\ ( r.pc = "optionalAuth" /\ r2 # r ) =>
                 \/ passed
                 \/ waiting /\ r2.pc = "optionalAuth.findById"
            /\ ( r.pc = "optionalAuth.findById" /\ r2 # r ) => passed
            /\ r.pc = "authenticateToken" => ENABLED AuthVerify(p)
            /\ r.pc = "authenticateToken.findById" => ENABLED AuthLookup(p)
            /\ r.pc = "optionalAuth" => ENABLED OptAuthVerify(p)
            /\ r.pc = "optionalAuth.findById" => ENABLED OptAuthLookup(p)
            /\ r.nextCalls <= 1
    ]_vars

\* a verified token whose subject has no row was turned down after the lookup
C28_Witness ==
    \E p \in Procs :
       /\ req[p].pc = "done"
       /\ req[p].route \in AuthRoutes
       /\ req[p].decoded # 0
       /\ req[p].resp.text = "User no longer exists"
       /\ req[p].nextCalls = 0
\* ---------------------------------------------- client: token refresh
\* The answers a POST /auth/refresh can get: 200 with a token, 401, or
\* no usable answer (network error, 5xx).
RefreshOutcomes == { "ok", "unauthorized", "failed" }

SettledStates == { "fulfilled", "rejected" }

\* A continuation of c is queued: the promise c waits for has settled.
\* Continuations are microtasks: they all run before the next timer,
\* event or network callback.
ContinuationQueued(cl, c) ==
    /\ cl.caller[c].pc \in { "awaiting", "joined" }
    /\ cl.promise[cl.caller[c].on] \in SettledStates

\* ApiClient.refreshToken up to its await: the request goes out.
ApiRefreshToken(cl, id) ==
    [cl EXCEPT !.promise[id] = "pending", !.inFlight = @ + 1]

\* refreshTokenIfNeeded without "if (refreshPromise) return refreshPromise"
RefreshTokenIfNeeded_NoGuard(cl, c) ==
    [ApiRefreshToken(cl, c) EXCEPT
        !.refreshPromise = c,
        !.caller[c] = [pc |-> "awaiting", role |-> "starter",
                       on |-> c, result |-> "pending"]]

\* refreshTokenIfNeeded up to its first suspension. With the flag set the
\* async function returns the shared promise: the promise handed to the
\* caller adopts that promise's state. Otherwise it assigns the flag and
\* awaits inside the try block.
RefreshTokenIfNeeded(cl, c) ==
    IF cl.refreshPromise # 0
    THEN [cl EXCEPT !.caller[c] = [pc |-> "joined", role |-> "joiner",
                                   on |-> cl.refreshPromise,
                                   result |-> "pending"]]
    ELSE [ApiRefreshToken(cl, c) EXCEPT
            !.refreshPromise = c,
            !.caller[c] = [pc |-> "awaiting", role |-> "starter",
                           on |-> c, result |-> "pending"]]

\* The request of promise id is answered. Success stores the new token
\* and fulfils the promise; an error goes through handleResponseError,
\* which clears the cookie on 401 and rejects.
RefreshSettles(cl, id, outcome) ==
    [cl EXCEPT
        !.inFlight = @ - 1,
        !.promise[id] = IF outcome = "ok" THEN "fulfilled" ELSE "rejected",
        !.authToken = IF outcome = "ok" THEN TRUE
                      ELSE IF outcome = "unauthorized" THEN FALSE
                      ELSE @]

\* The starter after "await refreshPromise": the catch block swallows a
\* rejection, the finally block clears the flag, the call resolves.
StarterContinues(cl, c) ==
    [cl EXCEPT
        !.refreshPromise = 0,
        !.caller[c] = [pc |-> "returned", role |-> "starter",
                       on |-> 0, result |-> "resolved"]]

\* The joiner's promise follows the shared promise: no try block is
\* around "return refreshPromise".
JoinerContinues(cl, c) ==
    [cl EXCEPT
        !.caller[c] = [pc |-> "returned", role |-> "joiner", on |-> 0,
                       result |-> IF cl.promise[cl.caller[c].on] = "fulfilled"
                                  THEN "resolved" ELSE "rejected"]]

\* c may call: its previous call has returned, nobody still waits for
\* the promise of that call, and no continuation is queued.
MayCall(c) ==
    /\ client.caller[c].pc \in { "idle", "returned" }
    /\ \A d \in Callers : ~ContinuationQueued(client, d)
    /\ \A d \in Callers :
          client.caller[d].pc \in { "awaiting", "joined" }
              => client.caller[d].on # c
    /\ client.promise[c] # "pending"

CallRefreshTokenIfNeeded(c) ==
    /\ c # IntervalCaller
    /\ MayCall(c)
    /\ client' = RefreshTokenIfNeeded(client, c)
    /\ UNCHANGED <<users, posts, lastPostId, now, req>>

\* setupTokenRefresh: every interval, refresh if a token is stored.
SetupTokenRefreshInterval ==
    /\ MayCall(IntervalCaller)
    /\ client.authToken
    /\ client' = RefreshTokenIfNeeded(client, IntervalCaller)
    /\ UNCHANGED <<users, posts, lastPostId, now, req>>

RefreshResponse(id) ==
    /\ client.promise[id] = "pending"
    /\ \A d \in Callers : ~ContinuationQueued(client, d)
    /\ \E outcome \in RefreshOutcomes :
          client' = RefreshSettles(client, id, outcome)
    /\ UNCHANGED <<users, posts, lastPostId, now, req>>

StarterResumes(c) ==
    /\ client.caller[c].pc = "awaiting"
    /\ ContinuationQueued(client, c)
    /\ client' = StarterContinues(client, c)
    /\ UNCHANGED <<users, posts, lastPostId, now, req>>

\* The starter's reaction was registered on the promise first, so it
\* runs before the joiners'.
JoinerResumes(c) ==
    /\ client.caller[c].pc = "joined"
    /\ ContinuationQueued(client, c)
    /\ client.caller[client.caller[c].on].pc # "awaiting"
    /\ client' = JoinerContinues(client, c)
    /\ UNCHANGED <<users, posts, lastPostId, now, req>>

ClientNext ==
    \/ SetupTokenRefreshInterval
    \/ \E c \in Callers :
          \/ CallRefreshTokenIfNeeded(c)
          \/ RefreshResponse(c)
          \/ StarterResumes(c)
          \/ JoinerResumes(c)

ClientSpec == Init /\ [][ClientNext]_vars

\* A refresh request has been sent and not yet answered.
RefreshPending(cl) == \E id \in Callers : cl.promise[id] = "pending"

\* This step is a call of refreshTokenIfNeeded by c.
CallsRefresh(c) ==
    /\ client.caller[c].pc \in { "idle", "returned" }
    /\ client'.caller[c].pc \in { "awaiting", "joined" }

\* C29: in the client at most one refresh request is in flight at any
\* time. A call of refreshTokenIfNeeded made while a refresh is pending
\* sends no request and joins the pending promise, and it returns only
\* once that promise has settled. When the pending refresh has settled,
\* with success or with failure, the next step resets refreshPromise to
\* null, so a call made with no refresh pending finds the flag null and
\* sends a new request.
C29_SingleRefreshInFlight ==
    [][ /\ client.inFlight <= 1
        /\ client'.inFlight <= 1
        /\ (client.refreshPromise # 0
              /\ client.promise[client.refreshPromise] \in SettledStates)
              => client'.refreshPromise = 0
        /\ \A c \in Callers :
              /\ (CallsRefresh(c) /\ RefreshPending(client))
                    => /\ client'.inFlight = client.inFlight
                       /\ client'.caller[c].pc = "joined"
                       /\ client'.caller[c].on = client.refreshPromise
                       /\ client.promise[client.refreshPromise] = "pending"
              /\ (CallsRefresh(c) /\ ~RefreshPending(client))
                    => /\ client.refreshPromise = 0
                       /\ client'.inFlight = client.inFlight + 1
                       /\ client'.caller[c].pc = "awaiting"
                       /\ client'.refreshPromise = c
              /\ (client.caller[c].pc = "joined"
                    /\ client'.caller[c].pc = "returned")
                    => /\ client.promise[client.caller[c].on] \in SettledStates
                       /\ client'.inFlight = client.inFlight
      ]_vars

\* A call that joined a pending refresh has returned, and a later call
\* has a new request in flight.
C29_Witness ==
    \E a, b \in Callers :
       /\ client.caller[a].pc = "returned"
       /\ client.caller[a].role = "joiner"
       /\ client.caller[b].pc = "awaiting"
       /\ client.refreshPromise = b
       /\ client.inFlight = 1

\* C30: refreshTokenIfNeeded never rejects: the promise it returned is
\* never rejected, for the call that sent the request and for the calls
\* that joined it.
C30_NeverRejects ==
    \A c \in Callers : client.caller[c].result # "rejected"

====
